---- MODULE Spec2Model ----
(***************************************************************************)
(* Model of make-site.py: the seating-chart renderer draw_svg and the part *)
(* of build_site that reads an event record, writes its diagram and adds   *)
(* its seating fragment to the ticket page.                                *)
(*                                                                         *)
(* Text is a sequence of one-character strings ("A24" is <<"A","2","4">>), *)
(* so that formatting, stripping and splitting are computed, not assumed.  *)
(* Python lists are sequences; Python's 0-based index i is index i + 1.    *)
(***************************************************************************)
EXTENDS Integers, Sequences, FiniteSets, TLC

VARIABLES
    pc,         \* position of the running function
    reserved,   \* draw_svg's argument: a list of seat identifiers
    seats,      \* draw_svg's local grid of cells
    svg,        \* the list of drawing elements draw_svg returns
    text,       \* build_site: the text of the event record being processed
    lines,      \* build_site: the record's lines without the comment lines
    header,     \* build_site: the unpacked (what, where, when)
    files,      \* build_site: names of the files present under the root
    fragments   \* build_site: seating fragments appended to the ticket page

vars == <<pc, reserved, seats, svg, text, lines, header, files, fragments>>

-----------------------------------------------------------------------------
(* Bounds of the model. *)

MaxReserved == 3

MaxLines == 4

-----------------------------------------------------------------------------
(* Python list operations. *)

Min(a, b) == IF a < b THEN a ELSE b

Max(a, b) == IF a > b THEN a ELSE b

\* A slice bound as Python normalises it: negative counts from the end,
\* and the result is clamped to 0..len.
PyBound(n, len) == IF n < 0 THEN Max(n + len, 0) ELSE Min(n, len)

\* s[lo:hi]
PySlice(s, lo, hi) ==
    LET a == PyBound(lo, Len(s))
        b == PyBound(hi, Len(s))
    IN  IF a >= b THEN <<>> ELSE SubSeq(s, a + 1, b)

\* s[lo:]
PySliceFrom(s, lo) == PySlice(s, lo, Len(s))

\* s[:hi]
PySliceTo(s, hi) == PySlice(s, 0, hi)

\* [x] * n, and [x for _ in range(n)]
Repeat(x, n) == [m \in 1..n |-> x]

Digits == <<"0", "1", "2", "3", "4", "5", "6", "7", "8", "9">>

\* str(k) for an integer k >= 0: its decimal digits.
RECURSIVE Str(_)
Str(k) ==
    IF k < 10 THEN <<Digits[k + 1]>>
    ELSE Str(k \div 10) \o <<Digits[(k % 10) + 1]>>

-----------------------------------------------------------------------------
(* draw_svg: the grid of seats. *)

size == 40

\* ls = [i * 2 + 1 for i in reversed(range(12))]
ls == [n \in 1..12 |-> (12 - n) * 2 + 1]

rs_odd == [n \in 1..12 |-> (n - 1) * 2 + 1]

\* rs = [i * 2 + 2 for i in range(12)]
rs == [n \in 1..12 |-> (n - 1) * 2 + 2]

cols ==
    PySliceTo(ls, 6) \o <<0, -1, 0>> \o PySliceFrom(ls, 6)
        \o PySliceTo(rs, 6) \o <<0, -1, 0>> \o PySliceFrom(rs, 6)

rows == <<"A", "B", "C", "D", "E", "F", "G", "H",
          "J", "K", "L", "M", "N", "O", "P", "Q">>

\* seats += [cols[:] for _ in range(2)]
RowsAB == Repeat(cols, 2)

\* seats += [[0] * 2 + cols[2:-2] + [0] * 2 for _ in range(8)]
RowsCK == Repeat(Repeat(0, 2) \o PySlice(cols, 2, -2) \o Repeat(0, 2), 8)

RowL_short == <<Repeat(0, 2) \o PySlice(cols, 2, -4) \o Repeat(0, 2)>>

\* seats += [[0] * 2 + cols[2:-4] + [0] * 4]
RowL == <<Repeat(0, 2) \o PySlice(cols, 2, -4) \o Repeat(0, 4)>>

\* seats += [[0] * 6 + cols[6:-6] + [0] * 6 for _ in range(4)]
RowsMP == Repeat(Repeat(0, 6) \o PySlice(cols, 6, -6) \o Repeat(0, 6), 4)

RowQ_shifted ==
    <<Repeat(0, 6) \o PySlice(cols, 6, 13) \o Repeat(0, 4)
        \o PySlice(cols, -14, -7) \o Repeat(0, 6)>>

\* seats += [[0] * 6 + cols[6:13] + [0] * 4 + cols[-13:-6] + [0] * 6]
RowQ ==
    <<Repeat(0, 6) \o PySlice(cols, 6, 13) \o Repeat(0, 4)
        \o PySlice(cols, -13, -6) \o Repeat(0, 6)>>

\* The list `seats` as the five += statements leave it.
SeatGrid == RowsAB \o RowsCK \o RowL \o RowsMP \o RowQ

\* assert len(seats) == len(rows)
\* assert all(len(cols) == len(row) for row in seats)
AssertionsHold(g) ==
    /\ Len(g) = Len(rows)
    /\ \A j \in 1..Len(g) : Len(cols) = Len(g[j])

-----------------------------------------------------------------------------
(* draw_svg: the drawing elements. *)

draw_text(x, y, fontsize, txt, fill, dy) ==
    [tag |-> "text", x |-> x, y |-> y, fontsize |-> fontsize,
     fill |-> fill, dy |-> dy, txt |-> txt]

draw_rect(x, y, w, h, stroke, fill) ==
    [tag |-> "rect", x |-> x, y |-> y, width |-> w, height |-> h,
     stroke |-> stroke, fill |-> fill]

\* scale(1.6), as the fraction 16/10
ScaleNum == 16

ScaleDen == 10

draw_seat(x, y, k, color) ==
    [tag |-> "g", x |-> x, y |-> y, scale |-> <<ScaleNum, ScaleDen>>,
     rect |-> draw_rect(-10, -10, 20, 20, "black", color),
     label |-> draw_text(0, 0, 9, Str(k), "black", ".1em")]

\* w = size * len(cols) + 2 * size
w == size * Len(cols) + 2 * size

\* h = size * len(rows) + 6 * size
h == size * Len(rows) + 6 * size

\* stage = size * 2
stage == size * 2

\* The five elements the list svg starts with (the accented letters of the
\* two band labels are written e).
SvgHead ==
    << [tag |-> "svg", width |-> w, height |-> h],
       draw_rect(0, 0, w, stage, "none", "#8bc34a"),
       draw_text(w \div 2, stage \div 2 + 5, 24,
                 <<"S", "c", "e", "n", "e">>, "white", ""),
       draw_rect(0, h - stage, w, stage, "none", "#8bc34a"),
       draw_text(w \div 2, h - stage \div 2 + 5, 24,
                 <<"R", "e", "g", "i", "e">>, "white", "") >>

CellX_half(i) == (size * (2 * i + 1)) \div 2

\* x = size * (i + 1.5), for the 0-based column i
CellX(i) == (size * (2 * i + 3)) \div 2

\* y = size * (j + 3.5), for the 0-based row j
CellY(j) == (size * (2 * j + 7)) \div 2

SeatId_first_row(j, k) == <<rows[1]>> \o Str(k)

\* seat = f"{rows[j]}{k}", for the 0-based row j
SeatId(j, k) == <<rows[j + 1]>> \o Str(k)

InReserved_prefix(seat, r) ==
    \E n \in 1..Len(r) :
        /\ Len(r[n]) >= Len(seat)
        /\ SubSeq(r[n], 1, Len(seat)) = seat

InReserved_first(seat, r) == Len(r) > 0 /\ r[1] = seat

\* seat in reserved, for a list reserved
InReserved(seat, r) == \E n \in 1..Len(r) : r[n] = seat

SeatColor_premium_wins(k, seat, r) ==
    LET c0 == "none"
        c1 == IF InReserved(seat, r) THEN "#ffcccb" ELSE c0
    IN  IF k >= 20 THEN "yellow" ELSE c1

\* color = "none"; if k > 20: color = "yellow";
\* if seat in reserved: color = "#ffcccb"
SeatColor(k, seat, r) ==
    LET c0 == "none"
        c1 == IF k > 20 THEN "yellow" ELSE c0
    IN  IF InReserved(seat, r) THEN "#ffcccb" ELSE c1

\* What the loop body appends for the cell k at 0-based (j, i), k # 0.
CellElement(j, i, k, r) ==
    IF k < 0
    THEN draw_text(CellX(i), CellY(j), 20, <<rows[j + 1]>>, "black", "")
    ELSE draw_seat(CellX(i), CellY(j), k, SeatColor(k, SeatId(j, k), r))

\* The elements the inner loop appends for the 0-based row j.
RowElements(g, j, r) ==
    LET row == g[j + 1]
        Drawn(i) == row[i + 1] # 0
        is == SelectSeq([n \in 1..Len(row) |-> n - 1], Drawn)
    IN  [m \in 1..Len(is) |-> CellElement(j, is[m], row[is[m] + 1], r)]

\* The elements the outer loop appends for the rows j, j+1, ...
RECURSIVE GridElements(_, _, _)
GridElements(g, j, r) ==
    IF j >= Len(g) THEN <<>>
    ELSE RowElements(g, j, r) \o GridElements(g, j + 1, r)

\* The list svg that draw_svg joins and returns.
draw_svg(r) ==
    SvgHead \o GridElements(SeatGrid, 0, r) \o <<[tag |-> "/svg"]>>

-----------------------------------------------------------------------------
(* Calls of draw_svg on lists of identifiers. *)

A1 == <<"A", "1">>
A24 == <<"A", "2", "4">>
C23 == <<"C", "2", "3">>
Z99 == <<"Z", "9", "9">>

\* Identifiers given to draw_svg: a seat, a premium seat, a seat trimmed
\* from its row, and a row that does not exist.
IdPool == {A1, A24, C23, Z99}

Inputs == UNION {[1..n -> IdPool] : n \in 0..MaxReserved}

NoBuild ==
    /\ text = <<>>
    /\ lines = <<>>
    /\ header = <<>>
    /\ files = {}
    /\ fragments = <<>>

Init ==
    /\ pc = "call"
    /\ reserved \in Inputs
    /\ seats = <<>>
    /\ svg = <<>>
    /\ NoBuild

DrawSvg ==
    /\ pc = "call"
    /\ seats' = SeatGrid
    /\ IF AssertionsHold(SeatGrid)
       THEN svg' = draw_svg(reserved) /\ pc' = "returned"
       ELSE svg' = svg /\ pc' = "AssertionError"
    /\ UNCHANGED <<reserved, text, lines, header, files, fragments>>

Next == DrawSvg

Spec == Init /\ [][Next]_vars

-----------------------------------------------------------------------------
(* build_site: one event record of site/vente-de-billets, from its text to *)
(* its diagram file, its seating fragment and the pages.                   *)

\* str.splitlines(), for texts whose only line boundary is "\n".
RECURSIVE SplitLines(_)
SplitLines(t) ==
    IF t = <<>> THEN <<>>
    ELSE IF \A n \in 1..Len(t) : t[n] # "\n" THEN <<t>>
    ELSE LET n == CHOOSE m \in 1..Len(t) :
                    t[m] = "\n" /\ \A q \in 1..(m - 1) : t[q] # "\n"
         IN  <<SubSeq(t, 1, n - 1)>> \o SplitLines(SubSeq(t, n + 1, Len(t)))

\* line.startswith("#")
StartsWithHash(line) == Len(line) > 0 /\ line[1] = "#"

\* lines = [line for line in lines if not line.startswith("#")]
DropComments(lst) ==
    LET Keep(line) == ~StartsWithHash(line)
    IN  SelectSeq(lst, Keep)

Whitespace == {" ", "\t", "\n", "\r"}

RECURSIVE LStrip(_)
LStrip(line) ==
    IF line # <<>> /\ line[1] \in Whitespace THEN LStrip(Tail(line)) ELSE line

RECURSIVE RStrip(_)
RStrip(line) ==
    IF line # <<>> /\ line[Len(line)] \in Whitespace
    THEN RStrip(SubSeq(line, 1, Len(line) - 1))
    ELSE line

Strip_left(line) == LStrip(line)

\* line.strip()
Strip(line) == RStrip(LStrip(line))

\* for line in lines[3:]: line = line.strip(); if line: reserved.append(line)
ReservedOf(lst) ==
    LET stripped == [n \in 1..Len(PySliceFrom(lst, 3)) |->
                        Strip(PySliceFrom(lst, 3)[n])]
        NonEmpty(line) == line # <<>>
    IN  SelectSeq(stripped, NonEmpty)

\* svg = f"static/{csv.stem}.svg", for the record event.txt
SvgName == "static/event.svg"

\* The files build_site has put under the root before it reads the records.
StaticFiles == {"static/logo.png", "static/style.css"}

\* The pages the final loop writes.
PageFiles ==
    {"index.html", "programme.html", "qui-sommes-nous.html",
     "realisations.html", "commanditaires.html", "contact.html",
     "vente-de-billets.html"}

\* Lines of a record: a title or plain identifier, an identifier with
\* blanks around it, an empty line, a line of blanks, a comment.
Plain == <<"A", "2", "4">>
Padded == <<" ", "A", "1", " ">>
Empty == <<>>
Blank == <<" ">>
Comment == <<"#", "A", "1">>

LinePool == {Plain, Padded, Empty, Blank, Comment}

RECURSIVE JoinLines(_)
JoinLines(lst) ==
    IF Len(lst) = 0 THEN <<>>
    ELSE IF Len(lst) = 1 THEN lst[1]
    ELSE lst[1] \o <<"\n">> \o JoinLines(Tail(lst))

\* The texts of event records: up to MaxLines lines separated by "\n"; a
\* last empty line is a text that ends with "\n".
Texts == {JoinLines(lst) : lst \in UNION {[1..n -> LinePool] : n \in 0..MaxLines}}

InitBuild ==
    /\ pc = "read"
    /\ text \in Texts
    /\ lines = <<>>
    /\ reserved = <<>>
    /\ seats = <<>>
    /\ svg = <<>>
    /\ header = <<>>
    /\ files = StaticFiles
    /\ fragments = <<>>

\* lines 206-212
ReadRecord ==
    /\ pc = "read"
    /\ lines' = DropComments(SplitLines(text))
    /\ reserved' = ReservedOf(lines')
    /\ pc' = "write"
    /\ UNCHANGED <<seats, svg, text, header, files, fragments>>

\* lines 213-214: Path(root, svg).write_text(draw_svg(reserved))
WriteSvg ==
    /\ pc = "write"
    /\ IF AssertionsHold(SeatGrid)
       THEN /\ svg' = draw_svg(reserved)
            /\ files' = files \cup {SvgName}
            /\ pc' = "unpack"
       ELSE /\ UNCHANGED <<svg, files>>
            /\ pc' = "AssertionError"
    /\ UNCHANGED <<reserved, seats, text, lines, header, fragments>>

\* line 215: what, where, when = lines[:3]
Unpack ==
    /\ pc = "unpack"
    /\ IF Len(PySliceTo(lines, 3)) = 3
       THEN header' = PySliceTo(lines, 3) /\ pc' = "render"
       ELSE header' = header /\ pc' = "ValueError"
    /\ UNCHANGED <<reserved, seats, svg, text, lines, files, fragments>>

\* lines 216-223: texts["vente-de-billets"] += seating.render({...})
RenderSeating ==
    /\ pc = "render"
    /\ fragments' = Append(fragments,
                           [what |-> header[1], where |-> header[2],
                            when |-> header[3], svg |-> SvgName])
    /\ pc' = "pages"
    /\ UNCHANGED <<reserved, seats, svg, text, lines, header, files>>

\* lines 225-228
WritePages ==
    /\ pc = "pages"
    /\ files' = files \cup PageFiles
    /\ pc' = "done"
    /\ UNCHANGED <<reserved, seats, svg, text, lines, header, fragments>>

NextBuild ==
    \/ ReadRecord
    \/ WriteSvg
    \/ Unpack
    \/ RenderSeating
    \/ WritePages

SpecBuild == InitBuild /\ [][NextBuild]_vars

-----------------------------------------------------------------------------
(* Vocabulary of the properties: the grid and the drawing as the           *)
(* specification describes them, without use of the definitions above.     *)

Range(s) == {s[n] : n \in 1..Len(s)}

\* The cell at 0-based row j and 0-based column i.
Cell(j, i) == seats[j + 1][i + 1]

RowIdx == 0..(Len(seats) - 1)

ColIdx(j) == 0..(Len(seats[j + 1]) - 1)

SeatCells == {c \in RowIdx \X (0..29) : c[2] \in ColIdx(c[1]) /\ Cell(c[1], c[2]) > 0}

RowLetters == <<"A", "B", "C", "D", "E", "F", "G", "H",
                "J", "K", "L", "M", "N", "O", "P", "Q">>

Decimal ==
    << <<"1">>, <<"2">>, <<"3">>, <<"4">>, <<"5">>, <<"6">>, <<"7">>, <<"8">>,
       <<"9">>, <<"1", "0">>, <<"1", "1">>, <<"1", "2">>, <<"1", "3">>,
       <<"1", "4">>, <<"1", "5">>, <<"1", "6">>, <<"1", "7">>, <<"1", "8">>,
       <<"1", "9">>, <<"2", "0">>, <<"2", "1">>, <<"2", "2">>, <<"2", "3">>,
       <<"2", "4">> >>

\* The identifier "row letter + number" of the seat cell c.
IdOf(c) == <<RowLetters[c[1] + 1]>> \o Decimal[Cell(c[1], c[2])]

\* id names a seat cell of the layout.
NamesSeat(id) == \E c \in SeatCells : IdOf(c) = id

Glyphs == {n \in 1..Len(svg) : svg[n].tag = "g"}

Fill(n) == svg[n].rect.fill

\* The glyphs drawn at the centre the specification gives cell c.
GlyphsAt(c) ==
    {n \in Glyphs : svg[n].x = 40 * c[2] + 60 /\ svg[n].y = 40 * c[1] + 140}

\* The cell a glyph is drawn for, from its centre.
CellOf(n) == <<(svg[n].y - 140) \div 40, (svg[n].x - 60) \div 40>>

PremiumRule(k) == IF k > 20 THEN "yellow" ELSE "none"

ReservedGlyphs == {n \in Glyphs : Fill(n) = "#ffcccb"}

YellowGlyphs == {n \in Glyphs : Fill(n) = "yellow"}

\* C1: the layout built by draw_svg has exactly 16 rows, as many as there
\* are row labels, and every row has 30 cells, as many as the canonical
\* pattern, so no call of draw_svg fails a construction assertion.
C1_GridIs16By30 ==
    /\ pc # "AssertionError"
    /\ pc = "returned" =>
        /\ Len(seats) = 16
        /\ Len(rows) = 16
        /\ Len(cols) = 30
        /\ \A j \in 1..Len(seats) : Len(seats[j]) = 30

C1_Witness == pc = "returned" /\ Len(seats) = 16 /\ Glyphs # {}

\* C2: every seat cell (row r, number n) has one glyph, whose fill is the
\* reserved colour if r+n is among the identifiers given (also when
\* n > 20), otherwise yellow if n > 20, otherwise none.
C2_FillPriority ==
    pc = "returned" =>
        \A c \in SeatCells :
            /\ Cardinality(GlyphsAt(c)) = 1
            /\ \A n \in GlyphsAt(c) :
                /\ svg[n].label.txt = Decimal[Cell(c[1], c[2])]
                /\ Fill(n) = IF IdOf(c) \in Range(reserved) THEN "#ffcccb"
                             ELSE IF Cell(c[1], c[2]) > 20 THEN "yellow"
                             ELSE "none"

\* A24 reserved and pink, A22 free and yellow, A20 free and without fill.
C2_Witness ==
    /\ pc = "returned"
    /\ A24 \in Range(reserved)
    /\ \E n \in GlyphsAt(<<0, 29>>) : Fill(n) = "#ffcccb"
    /\ \E n \in GlyphsAt(<<0, 28>>) : Fill(n) = "yellow"
    /\ \E n \in GlyphsAt(<<0, 27>>) : Fill(n) = "none"
    /\ Cell(0, 29) = 24 /\ Cell(0, 28) = 22 /\ Cell(0, 27) = 20

\* Identifiers tried as additions to a reservation list: unknown rows,
\* seats trimmed from their row, malformed strings, and two real seats.
ProbeIds ==
    { Z99, <<"I", "5">>, C23, <<"L", "1", "8">>, <<"M", "1", "4">>,
      <<"Q", "1">>, <<"A", "0", "1">>, <<"A">>, <<"1", "A">>, <<>>,
      <<"A", "1", " ">>, <<"a", "1">>, <<"A", "2", "5">>, <<"A", "0">>,
      A1, <<"Q", "1", "2">> }

\* C3: adding an identifier that names no seat cell to the list given to
\* draw_svg does not change what it returns; for the empty list,
\* draw_svg([id]) is draw_svg([]).
C3_NonSeatIdIgnored ==
    pc = "returned" =>
        \A id \in ProbeIds :
            ~NamesSeat(id) => draw_svg(Append(reserved, id)) = svg

C3_Witness ==
    /\ pc = "returned"
    /\ reserved = <<C23, A1, Z99>>
    /\ Cardinality(ReservedGlyphs) = 1
    /\ ~NamesSeat(C23) /\ ~NamesSeat(Z99) /\ NamesSeat(A1)

\* C4: the glyphs in the reserved colour are exactly the seats whose
\* identifier is given, one glyph for each, and every other glyph follows
\* the premium rule; row A holds the seats 1..24; {A1, A24} gives two
\* reserved glyphs; the empty list gives none and one yellow glyph for
\* each cell with a number above 20.
C4_ReservedGlyphsExact ==
    pc = "returned" =>
        /\ \A n \in ReservedGlyphs :
            CellOf(n) \in SeatCells /\ IdOf(CellOf(n)) \in Range(reserved)
        /\ Cardinality(ReservedGlyphs)
             = Cardinality({id \in Range(reserved) : NamesSeat(id)})
        /\ \A n \in Glyphs \ ReservedGlyphs :
            /\ CellOf(n) \in SeatCells
            /\ Fill(n) = PremiumRule(Cell(CellOf(n)[1], CellOf(n)[2]))
        /\ {Cell(0, i) : i \in ColIdx(0)} \ {0, -1} = 1..24
        /\ Cardinality({c \in SeatCells : c[1] = 0}) = 24
        /\ Range(reserved) = {A1, A24} =>
            /\ Cardinality(ReservedGlyphs) = 2
            /\ Cardinality({n \in Glyphs \ ReservedGlyphs : CellOf(n)[1] = 0}) = 22
        /\ reserved = <<>> =>
            /\ ReservedGlyphs = {}
            /\ Cardinality(YellowGlyphs)
                 = Cardinality({c \in SeatCells : Cell(c[1], c[2]) > 20})

C4_Witness ==
    /\ pc = "returned"
    /\ Range(reserved) = {A1, A24}
    /\ Cardinality(ReservedGlyphs) = 2
    /\ Cardinality(YellowGlyphs) = 7

\* C5: every cell of the layout is empty (0), a row label (-1) or a
\* positive seat number; no number occurs twice in a row, and no two seat
\* cells of the grid have the same identifier.
C5_SeatIdsUnique ==
    pc = "returned" =>
        /\ \A j \in RowIdx : \A i \in ColIdx(j) :
            Cell(j, i) \in {0, -1} \/ Cell(j, i) \in 1..24
        /\ \A j \in RowIdx : \A i1, i2 \in ColIdx(j) :
            (Cell(j, i1) > 0 /\ i1 # i2) => Cell(j, i1) # Cell(j, i2)
        /\ \A j1, j2 \in RowIdx : j1 # j2 => rows[j1 + 1] # rows[j2 + 1]
        /\ Cardinality({SeatId(c[1], Cell(c[1], c[2])) : c \in SeatCells})
             = Cardinality(SeatCells)

\* Row Q, the split row, holds its eight seats.
C5_Witness ==
    /\ pc = "returned"
    /\ {Cell(15, i) : i \in ColIdx(15)} = {0, -1, 5, 7, 9, 11, 6, 8, 10, 12}
    /\ Cardinality({c \in SeatCells : c[1] = 15}) = 8

\* C6: what draw_svg returns depends only on the set of identifiers in
\* the list it is given: a list with the same identifiers in another
\* order or with repetitions gives the same result.
C6_OnlyTheSetMatters ==
    pc = "returned" =>
        \A r2 \in Inputs :
            Range(r2) = Range(reserved) => draw_svg(r2) = svg

C6_Witness ==
    /\ pc = "returned"
    /\ reserved = <<A24, A1, A24>>
    /\ Cardinality(ReservedGlyphs) = 2

Pattern ==
    <<23, 21, 19, 17, 15, 13, 0, -1, 0, 11, 9, 7, 5, 3, 1,
      2, 4, 6, 8, 10, 12, 0, -1, 0, 14, 16, 18, 20, 22, 24>>

\* The columns (0-based) of the pattern that row j (0-based) keeps.
Kept(j) ==
    IF j \in 0..1 THEN 0..29
    ELSE IF j \in 2..9 THEN 2..27
    ELSE IF j = 10 THEN 2..25
    ELSE IF j \in 11..14 THEN 6..23
    ELSE (6..12) \cup (17..23)

\* C9: every row is the 30-cell canonical pattern with the cells outside
\* the row's kept columns replaced by Empty and no cell moved; hence the
\* row-label cells of every row are the columns 7 and 22.
C9_RowsAreTrimmedPattern ==
    pc = "returned" =>
        /\ cols = Pattern
        /\ RowIdx = 0..15
        /\ \A j \in RowIdx :
            /\ ColIdx(j) = 0..29
            /\ \A i \in ColIdx(j) :
                Cell(j, i) = IF i \in Kept(j) THEN Pattern[i + 1] ELSE 0
            /\ {i \in ColIdx(j) : Cell(j, i) = -1} = {7, 22}

\* Row L ends at column 25 and row Q has its centre gap.
C9_Witness ==
    /\ pc = "returned"
    /\ Cell(10, 25) = 16 /\ Cell(10, 26) = 0
    /\ Cell(15, 12) = 5 /\ Cell(15, 13) = 0 /\ Cell(15, 16) = 0
    /\ Cell(15, 17) = 6

\* The sides of the square of glyph n after scaling.
Left(n) == svg[n].x + (svg[n].rect.x * ScaleNum) \div ScaleDen
Right(n) == svg[n].x + ((svg[n].rect.x + svg[n].rect.width) * ScaleNum) \div ScaleDen
Top(n) == svg[n].y + (svg[n].rect.y * ScaleNum) \div ScaleDen
Bottom(n) == svg[n].y + ((svg[n].rect.y + svg[n].rect.height) * ScaleNum) \div ScaleDen

\* C10: the canvas is 1280 by 880, every drawn cell (j, i) is centred at
\* (40 i + 60, 40 j + 140), and every seat glyph is a 32 by 32 square
\* inside the canvas, below the stage band, above the band that starts at
\* y = 800, and disjoint from every other seat glyph.
C10_GlyphsFitAndAreDisjoint ==
    pc = "returned" =>
        /\ svg[1].width = 1280 /\ svg[1].height = 880
        /\ svg[2].y = 0 /\ svg[2].height = 80 /\ svg[2].width = 1280
        /\ svg[4].y = 800 /\ svg[4].height = 80 /\ svg[4].width = 1280
        /\ \A j \in RowIdx : \A i \in ColIdx(j) :
            Cell(j, i) # 0 =>
                \E n \in 6..(Len(svg) - 1) :
                    svg[n].x = 40 * i + 60 /\ svg[n].y = 40 * j + 140
        /\ \A n \in 6..(Len(svg) - 1) :
            \E j \in RowIdx : \E i \in ColIdx(j) :
                /\ Cell(j, i) # 0
                /\ svg[n].x = 40 * i + 60 /\ svg[n].y = 40 * j + 140
        /\ \A n \in Glyphs :
            /\ Right(n) - Left(n) = 32 /\ Bottom(n) - Top(n) = 32
            /\ Left(n) = svg[n].x - 16 /\ Top(n) = svg[n].y - 16
            /\ 0 <= Left(n) /\ Right(n) <= svg[1].width
            /\ svg[2].y + svg[2].height <= Top(n)
            /\ Bottom(n) <= svg[4].y
            /\ Bottom(n) <= svg[1].height
        /\ \A m, n \in Glyphs :
            m < n =>
                \/ Right(m) <= Left(n) \/ Right(n) <= Left(m)
                \/ Bottom(m) <= Top(n) \/ Bottom(n) <= Top(m)

\* The glyphs nearest the right edge (A24) and the lower band (row Q).
C10_Witness ==
    /\ pc = "returned"
    /\ \E n \in Glyphs : Right(n) = 1236 /\ Top(n) = 124
    /\ \E n \in Glyphs : Bottom(n) = 756

\* The lines of the record's text, and those that do not begin with "#".
RawLines == SplitLines(text)

NotComment(line) == ~(Len(line) > 0 /\ line[1] = "#")

NotCommentNotEmpty(line) == NotComment(line) /\ line # <<>>

Blanks == {" ", "\t", "\n", "\r"}

NotBlank(line) == \E q \in 1..Len(line) : line[q] \notin Blanks

\* s is line without its leading and trailing blanks.
IsStripOf(s, line) ==
    \E a \in 1..(Len(line) + 1) : \E b \in 0..Len(line) :
        /\ a <= b + 1
        /\ s = SubSeq(line, a, b)
        /\ \A q \in 1..(a - 1) : line[q] \in Blanks
        /\ \A q \in (b + 1)..Len(line) : line[q] \in Blanks
        /\ s # <<>> => (s[1] \notin Blanks /\ s[Len(s)] \notin Blanks)

AfterThree(lst) == IF Len(lst) <= 3 THEN <<>> ELSE SubSeq(lst, 4, Len(lst))

\* ids are the non-blank lines among lst, stripped, in the same order.
AreIdsOf(ids, lst) ==
    LET nb == SelectSeq(lst, NotBlank)
    IN  /\ Len(ids) = Len(nb)
        /\ \A n \in 1..Len(ids) : IsStripOf(ids[n], nb[n])

Failed == pc = "ValueError"

PastUnpack == pc \in {"render", "pages", "done"}

PastRead == pc \in {"write", "unpack", "render", "pages", "done", "ValueError"}

\* C7: a record with fewer than three header lines makes build_site fail
\* with an error, and a record whose processing fails has no output: no
\* diagram file and no seating fragment.
C7_FailsBeforeAnyOutput ==
    /\ PastUnpack => Len(lines) >= 3
    /\ Failed => (SvgName \notin files /\ fragments = <<>>)

\* C8 as stated: the first three of the non-comment, non-empty lines are
\* the header, and the non-blank ones after them, stripped, are the
\* identifiers passed to draw_svg.
C8_HeaderSkipsEmptyLines ==
    LET cl == SelectSeq(RawLines, NotCommentNotEmpty)
    IN  /\ PastUnpack => (Len(cl) >= 3 /\ header = SubSeq(cl, 1, 3))
        /\ PastRead => AreIdsOf(reserved, AfterThree(cl))
        /\ \A n \in 1..Len(header) : NotComment(header[n])

\* C8, amended: the first three of the lines that do not begin with "#",
\* empty or not and as written, are (what, where, when); the non-blank
\* ones after them, stripped, are exactly the identifiers passed to
\* draw_svg, in order; no line beginning with "#" is a header or an
\* identifier.
C8_HeaderIsFirstThreeNonComment ==
    LET nc == SelectSeq(RawLines, NotComment)
    IN  /\ PastUnpack => (Len(nc) >= 3 /\ header = SubSeq(nc, 1, 3))
        /\ pc \in {"pages", "done"} =>
            fragments = <<[what |-> nc[1], where |-> nc[2],
                           when |-> nc[3], svg |-> SvgName]>>
        /\ PastRead => AreIdsOf(reserved, AfterThree(nc))
        /\ pc \in {"unpack", "render", "pages", "done", "ValueError"} =>
            svg = draw_svg(reserved)
        /\ \A n \in 1..Len(header) : NotComment(header[n])

\* An empty second header, a header kept with its blanks, one identifier.
C8_Witness ==
    /\ pc = "done"
    /\ RawLines = <<Plain, Empty, Padded, Padded>>
    /\ header = <<Plain, Empty, Padded>>
    /\ reserved = <<A1>>
    /\ Len(fragments) = 1

====
